---- MODULE Spec2Model ----
(***************************************************************************)
(* Model of neuro-quiplash: the coordinator task run() that polls the game *)
(* page, opens decision windows with the agent (register a temporary       *)
(* action, force it, wait on GameState.played) and applies the accepted    *)
(* decision to the page, together with the agent-protocol handler task     *)
(* that runs set_name_action / answer_action / vote_action.                *)
(*                                                                         *)
(* Specifications:                                                         *)
(*   Spec        the run() of src/neuro-quiplash.py with the handler task  *)
(*               and the game page as environment (FairSpec: the same,     *)
(*               with the coordinator scheduled fairly);                   *)
(*   QSpec       the run() of src/quiplash.py in the same environment;     *)
(*   LiveSpec    Spec without cancellation and without failing steps in    *)
(*               the main loop, with a fair coordinator and agent;         *)
(*   HandlerSpec one call of one handler (either copy: neuro-quiplash.py   *)
(*               or quiplash.py) on an arbitrary payload from an arbitrary *)
(*               GameState.                                                *)
(***************************************************************************)
EXTENDS Integers, FiniteSets, Sequences, TLC

\* ------------------------------------------------------------------------
\* Program constants
\* ------------------------------------------------------------------------
MAX_NAME_LENGTH == 12
MAX_ANSWER_LENGTH == 45
ROOMCODE_LENGTH == 4

\* ------------------------------------------------------------------------
\* Bounds of the model
\* ------------------------------------------------------------------------
\* largest number of vote buttons the page shows
MaxButtons == 2
\* largest number of rejected submissions counted in one window
MaxRejects == 1

\* ------------------------------------------------------------------------
\* JSON values and payloads
\*
\* A JSON value is [t, n]: t its type, n its size or number:
\*   str     a non-numeric string of n characters
\*   numstr  a string holding the decimal digit n (one character)
\*   int     the integer n
\*   float   the non-integral number n + 0.5 (n >= 0)
\*   bool    true (n = 1) or false (n = 0)
\*   null    null
\*   list    a list of n elements
\* ------------------------------------------------------------------------
Val(t, n) == [t |-> t, n |-> n]
Str(n) == Val("str", n)
IntV(n) == Val("int", n)
PyNone == Val("None", 0)
NoVal == Val("absent", 0)

Fields == {"name", "answer", "vote"}

\* A raw payload (action.data) is [kind, field, val]:
\*   badjson  not JSON at all
\*   scalar   a JSON number, boolean or null at top level
\*   seq      a JSON string or list at top level; field is the field name it
\*            contains as substring / element, or "none"
\*   obj      a JSON object with the single key field (or no key: "none")
\*            and value val
Payload(k, f, v) == [kind |-> k, field |-> f, val |-> v]
BadJson == Payload("badjson", "none", NoVal)
Scalar == Payload("scalar", "none", NoVal)
EmptyObj == Payload("obj", "none", NoVal)
Obj(f, v) == Payload("obj", f, v)

StrLens ==
    {0, 1, MAX_NAME_LENGTH, MAX_NAME_LENGTH + 1,
     MAX_ANSWER_LENGTH, MAX_ANSWER_LENGTH + 1}

Ints == (0 - 1) .. (MaxButtons + 1)

Values ==
    {Str(n) : n \in StrLens}
        \cup {IntV(n) : n \in Ints}
        \cup {Val("numstr", n) : n \in 1 .. 2}
        \cup {Val("float", n) : n \in 1 .. 2}
        \cup {Val("bool", n) : n \in 0 .. 1}
        \cup {Val("null", 0)}
        \cup {Val("list", n) : n \in 0 .. 1}

Payloads ==
    {BadJson, Scalar, EmptyObj}
        \cup {Payload("seq", f, NoVal) : f \in Fields \cup {"none"}}
        \cup {Obj(f, v) : f \in Fields, v \in Values}

\* ------------------------------------------------------------------------
\* GameState
\* ------------------------------------------------------------------------
GameState ==
    [username |-> PyNone, response |-> PyNone, vote |-> 0 - 1,
     vote_option_count |-> 0, played |-> FALSE]

reset_played(st) == [st EXCEPT !.played = FALSE]

\* ------------------------------------------------------------------------
\* Handlers.  A handler's outcome is [ok, msg, st, exc]: the returned pair
\* (ok, msg), the GameState it leaves, and exc = TRUE when it raised instead
\* of returning.
\* ------------------------------------------------------------------------
Ret(ok, msg, st) == [ok |-> ok, msg |-> msg, st |-> st, exc |-> FALSE]
Raise(st) == [ok |-> FALSE, msg |-> "raised", st |-> st, exc |-> TRUE]

\* Python's  f in data  and  data[f]  and  len(v)
InRaises(data) == data.kind = "scalar"
Contains(data, f) == data.kind \in {"seq", "obj"} /\ data.field = f
SubscriptRaises(data) == data.kind # "obj"
HasLen(v) == v.t \in {"str", "numstr", "list"}
PyLen(v) == IF v.t = "numstr" THEN 1 ELSE v.n

\* the wrapper of handle_json: r is what action_function(data, state) does
\* on the decoded payload (not evaluated when json.loads raises)
handle_json(p, st, r) ==
    IF p.kind = "badjson"
    THEN Ret(FALSE, "Invalid JSON", st)
    ELSE IF r.exc THEN Ret(FALSE, "Unexpected error", r.st) ELSE r

\* mutant of set_name_body: the limit test written < instead of <=
set_name_body_strict(data, st) ==
    IF InRaises(data) THEN Raise(st)
    ELSE IF ~Contains(data, "name")
    THEN Ret(FALSE, "Data must contain field 'name'.", st)
    ELSE IF SubscriptRaises(data) \/ ~HasLen(data.val) THEN Raise(st)
    ELSE IF PyLen(data.val) = 0
    THEN Ret(FALSE, "Received blank name. Must enter in a name.", st)
    ELSE IF PyLen(data.val) < MAX_NAME_LENGTH
    THEN Ret(TRUE, "state.username = ",
             [st EXCEPT !.username = data.val, !.played = TRUE])
    ELSE Ret(FALSE, "Name cannot exceed MAX_NAME_LENGTH characters.", st)

set_name_body(data, st) ==
    IF InRaises(data) THEN Raise(st)
    ELSE IF ~Contains(data, "name")
    THEN Ret(FALSE, "Data must contain field 'name'.", st)
    ELSE IF SubscriptRaises(data) \/ ~HasLen(data.val) THEN Raise(st)
    ELSE IF PyLen(data.val) = 0
    THEN Ret(FALSE, "Received blank name. Must enter in a name.", st)
    ELSE IF PyLen(data.val) <= MAX_NAME_LENGTH
    THEN Ret(TRUE, "state.username = ",
             [st EXCEPT !.username = data.val, !.played = TRUE])
    ELSE Ret(FALSE, "Name cannot exceed MAX_NAME_LENGTH characters.", st)

\* mutant of answer_body: state.played.set() moved above the length tests
answer_body_signal_first(data, st) ==
    IF InRaises(data) THEN Raise(st)
    ELSE IF ~Contains(data, "answer")
    THEN Ret(FALSE, "Data must contain field 'answer'.", st)
    ELSE IF SubscriptRaises(data) \/ ~HasLen(data.val) THEN Raise(st)
    ELSE IF PyLen(data.val) = 0
    THEN Ret(FALSE, "Received blank answer. Must enter in an answer.",
             [st EXCEPT !.played = TRUE])
    ELSE IF PyLen(data.val) <= MAX_ANSWER_LENGTH
    THEN Ret(TRUE, "state.response = ",
             [st EXCEPT !.response = data.val, !.played = TRUE])
    ELSE Ret(FALSE, "Answer cannot exceed MAX_ANSWER_LENGTH characters.",
             [st EXCEPT !.played = TRUE])

answer_body(data, st) ==
    IF InRaises(data) THEN Raise(st)
    ELSE IF ~Contains(data, "answer")
    THEN Ret(FALSE, "Data must contain field 'answer'.", st)
    ELSE IF SubscriptRaises(data) \/ ~HasLen(data.val) THEN Raise(st)
    ELSE IF PyLen(data.val) = 0
    THEN Ret(FALSE, "Received blank answer. Must enter in an answer.", st)
    ELSE IF PyLen(data.val) <= MAX_ANSWER_LENGTH
    THEN Ret(TRUE, "state.response = ",
             [st EXCEPT !.response = data.val, !.played = TRUE])
    ELSE Ret(FALSE, "Answer cannot exceed MAX_ANSWER_LENGTH characters.", st)

\* mutant of vote_body: state.vote assigned before the range test
vote_body_store_first(data, st) ==
    IF InRaises(data) THEN Raise(st)
    ELSE IF ~Contains(data, "vote")
    THEN Ret(FALSE, "Data must contain field 'vote'.", st)
    ELSE IF SubscriptRaises(data) THEN Raise(st)
    ELSE IF data.val.t # "int"
    THEN Ret(FALSE, "'vote' must be an integer.", st)
    ELSE IF data.val.n <= 0 \/ data.val.n > st.vote_option_count
    THEN Ret(FALSE, "Invalid choice. Choices are from 1 to vote_option_count, inclusive.",
             [st EXCEPT !.vote = data.val.n - 1])
    ELSE Ret(TRUE, "state.vote = ",
             [st EXCEPT !.vote = data.val.n - 1, !.played = TRUE])

\* mutant of vote_body: the vote is stored but state.played is not set
vote_body_nosignal(data, st) ==
    IF InRaises(data) THEN Raise(st)
    ELSE IF ~Contains(data, "vote")
    THEN Ret(FALSE, "Data must contain field 'vote'.", st)
    ELSE IF SubscriptRaises(data) THEN Raise(st)
    ELSE IF data.val.t # "int"
    THEN Ret(FALSE, "'vote' must be an integer.", st)
    ELSE IF data.val.n <= 0 \/ data.val.n > st.vote_option_count
    THEN Ret(FALSE, "Invalid choice. Choices are from 1 to vote_option_count, inclusive.", st)
    ELSE Ret(TRUE, "state.vote = ", [st EXCEPT !.vote = data.val.n - 1])

vote_body(data, st) ==
    IF InRaises(data) THEN Raise(st)
    ELSE IF ~Contains(data, "vote")
    THEN Ret(FALSE, "Data must contain field 'vote'.", st)
    ELSE IF SubscriptRaises(data) THEN Raise(st)
    ELSE IF data.val.t # "int"
    THEN Ret(FALSE, "'vote' must be an integer.", st)
    ELSE IF data.val.n <= 0 \/ data.val.n > st.vote_option_count
    THEN Ret(FALSE, "Invalid choice. Choices are from 1 to vote_option_count, inclusive.", st)
    ELSE Ret(TRUE, "state.vote = ",
             [st EXCEPT !.vote = data.val.n - 1, !.played = TRUE])

set_name_action(p, st) == handle_json(p, st, set_name_body(p, st))
answer_action(p, st) == handle_json(p, st, answer_body(p, st))
vote_action(p, st) == handle_json(p, st, vote_body(p, st))

Actions == {"set_name", "respond", "cast_vote"}

\* the handler registered under each action name
Handler(a, p, st) ==
    CASE a = "set_name" -> set_name_action(p, st)
      [] a = "respond" -> answer_action(p, st)
      [] a = "cast_vote" -> vote_action(p, st)

\* ------------------------------------------------------------------------
\* The handlers of quiplash.py (closures over username, response, vote,
\* vote_option_count and neuro_played, held here in the same record).
\* Only json.loads is guarded; int() coerces its argument.
\* ------------------------------------------------------------------------
\* Python's int(v): [ok, n], ok = FALSE when it raises
PyInt(v) ==
    IF v.t \in {"int", "float", "bool", "numstr"}
    THEN [ok |-> TRUE, n |-> v.n]
    ELSE [ok |-> FALSE, n |-> 0]

q_set_name_action(p, st) ==
    IF p.kind = "badjson" THEN Ret(FALSE, "Invalid JSON, failed to unpack.", st)
    ELSE IF InRaises(p) THEN Raise(st)
    ELSE IF ~Contains(p, "name")
    THEN Ret(FALSE, "Data must contain field 'name'.", st)
    ELSE IF SubscriptRaises(p) \/ ~HasLen(p.val) THEN Raise(st)
    ELSE IF PyLen(p.val) = 0
    THEN Ret(FALSE, "Received blank name. Must enter in a name.", st)
    ELSE IF PyLen(p.val) <= MAX_NAME_LENGTH
    THEN Ret(TRUE, "data[name] = ",
             [st EXCEPT !.username = p.val, !.played = TRUE])
    ELSE Ret(FALSE, "Name cannot exceed MAX_NAME_LENGTH characters.", st)

q_answer_action(p, st) ==
    IF p.kind = "badjson" THEN Ret(FALSE, "Invalid JSON, failed to unpack.", st)
    ELSE IF InRaises(p) THEN Raise(st)
    ELSE IF ~Contains(p, "answer")
    THEN Ret(FALSE, "Data must contain field 'answer'.", st)
    ELSE IF SubscriptRaises(p) \/ ~HasLen(p.val) THEN Raise(st)
    ELSE IF PyLen(p.val) = 0
    THEN Ret(FALSE, "Received blank answer. Must enter in an answer.", st)
    ELSE IF PyLen(p.val) <= MAX_ANSWER_LENGTH
    THEN Ret(TRUE, "data[answer] = ",
             [st EXCEPT !.response = p.val, !.played = TRUE])
    ELSE Ret(FALSE, "Answer cannot exceed MAX_ANSWER_LENGTH characters.", st)

q_vote_action(p, st) ==
    IF p.kind = "badjson" THEN Ret(FALSE, "Invalid JSON, failed to unpack.", st)
    ELSE IF InRaises(p) THEN Raise(st)
    ELSE IF ~Contains(p, "vote")
    THEN Ret(FALSE, "Data must contain field 'vote'.", st)
    ELSE IF SubscriptRaises(p) THEN Raise(st)
    ELSE LET choice == PyInt(p.val)
         IN  IF ~choice.ok
             THEN Ret(FALSE, "'vote' must be an integer.", st)
             ELSE IF choice.n <= 0 \/ choice.n > st.vote_option_count
             THEN Ret(FALSE, "Invalid choice. Choices are from 1 to vote_option_count, inclusive.", st)
             ELSE Ret(TRUE, "vote = ",
                      [st EXCEPT !.vote = choice.n - 1, !.played = TRUE])

q_Handler(a, p, st) ==
    CASE a = "set_name" -> q_set_name_action(p, st)
      [] a = "respond" -> q_answer_action(p, st)
      [] a = "cast_vote" -> q_vote_action(p, st)

\* ------------------------------------------------------------------------
\* State
\* ------------------------------------------------------------------------
VARIABLES
    pc,            \* where run() stands (the await it is suspended in, or the
                   \* synchronous step it is about to take)
    state,         \* the GameState
    registered,    \* temporary actions registered with the agent, not yet
                   \* unregistered by an accepted call
    surf,          \* the game page: [ans, vote], the two phase markers
    vote_buttons,  \* len(vote_buttons) of the list captured by
                   \* handle_voting_phase
    ev,            \* what the coordinator's last step did to the outside
    acc,           \* history: the decision accepted since the last window was
                   \* registered, not yet consumed by an apply step
    rejects,       \* history: rejections since the last window was registered
    hist,          \* history: counters of the run, and what the current
                   \* iteration of the main loop has observed and done
    last           \* HandlerSpec: the handler call made

vars ==
    <<pc, state, registered, surf, vote_buttons, ev, acc, rejects, hist, last>>

Event(k, v, ok) == [kind |-> k, val |-> v, ok |-> ok]
NoEvent == Event("none", NoVal, TRUE)

NoAcc == [act |-> "none", val |-> NoVal]
NoCall ==
    [copy |-> "none", act |-> "none", p |-> BadJson, pre |-> GameState,
     ok |-> FALSE, msg |-> "", exc |-> FALSE]

AnsMarks == {"absent", "off", "on"}
VoteMarks == {"absent", "off", "waiting", "on"}
Surfaces == [ans : AnsMarks, vote : VoteMarks]
NoPage == [ans |-> "absent", vote |-> "absent"]

\* nameOpens, joinCalls, stopCalls: calls made; stopped: a stop() ran to its
\* end; roomcode: "valid" when the code entered is 4 letters; cancel: the
\* exception that ended the run; iter: "both" while the iteration that started
\* with both markers on is opening a respond window, "opened" once it has
\* forced it; obs: what the phase handler now running has seen, "ans_on"
\* (answer marker present and not off), "vote_active" (vote marker present
\* and not off), "vote_ready" (then also the vote text not the waiting
\* message and at least one button); handled: an
\* answer was applied with the answer marker on, and since then the page has
\* not changed and the agent has had no call accepted
Hist0 ==
    [nameOpens |-> 0, joinCalls |-> 0, joinArg |-> NoVal, joinFailed |-> FALSE,
     stopCalls |-> 0, launched |-> FALSE, roomcode |-> "none",
     cancel |-> "none", stopped |-> FALSE, iter |-> "none", obs |-> "none",
     handled |-> FALSE]

Init ==
    /\ pc = "connect"
    /\ state = GameState
    /\ registered = {}
    /\ surf = NoPage
    /\ vote_buttons = 0
    /\ ev = NoEvent
    /\ acc = NoAcc
    /\ rejects = 0
    /\ hist = Hist0
    /\ last = NoCall

\* the awaits of run(): where the handler task can run
NamePcs == {"name_register", "name_force", "name_wait"}
AnswerPcs == {"ans_sleep", "ans_register", "ans_force", "ans_wait"}
VotePcs == {"vote_sleep", "vote_register", "vote_force", "vote_wait"}
Checkpoints ==
    {"connect", "startup", "pause", "join_stop"}
        \cup NamePcs \cup AnswerPcs \cup VotePcs
\* the main loop
LoopPcs == {"ans_poll", "vote_poll", "pause"} \cup AnswerPcs \cup VotePcs
\* inside the try block
TryPcs == Checkpoints \cup {"roomcode", "launch", "join", "ans_poll", "vote_poll"}
WaitPcs == {"name_wait", "ans_wait", "vote_wait"}
RegisterPcs == {"name_register", "ans_register", "vote_register"}

\* ------------------------------------------------------------------------
\* run(): start-up, the name window, the join
\* ------------------------------------------------------------------------
Frame == UNCHANGED <<surf, vote_buttons, last>>

\* raise_event("connect") and the wait for the connection
Connect ==
    /\ pc = "connect"
    /\ \E connected \in BOOLEAN :
          pc' = IF connected THEN "startup" ELSE "finally"
    /\ ev' = NoEvent
    /\ UNCHANGED <<state, registered, acc, rejects, hist>>
    /\ Frame

\* send_startup_command(): returns, or raises
Startup ==
    /\ pc = "startup"
    /\ \E sent \in BOOLEAN :
          pc' = IF sent THEN "roomcode" ELSE "finally"
    /\ ev' = NoEvent
    /\ UNCHANGED <<state, registered, acc, rejects, hist>>
    /\ Frame

\* a room code of n characters, all letters or not: exactly four letters?
FourLetters(n, alpha) == IF n = 4 /\ alpha THEN "valid" ELSE "invalid"

\* input() of the room code: n characters, alphabetic or not; GameState()
Roomcode ==
    /\ pc = "roomcode"
    /\ \E n \in (ROOMCODE_LENGTH - 1) .. (ROOMCODE_LENGTH + 1), alpha \in BOOLEAN :
          /\ pc' = IF n # ROOMCODE_LENGTH \/ ~alpha THEN "finally" ELSE "name_register"
          /\ hist' = [hist EXCEPT !.roomcode = FourLetters(n, alpha)]
    /\ state' = GameState
    /\ ev' = NoEvent
    /\ UNCHANGED <<registered, acc, rejects>>
    /\ Frame

\* register_temporary_actions(set_name): returns, or raises out of run()
NameRegister ==
    /\ pc = "name_register"
    /\ \/ /\ registered' = registered \cup {"set_name"}
          /\ pc' = "name_force"
          /\ ev' = Event("register", Val("set_name", 0), TRUE)
          /\ hist' = [hist EXCEPT !.nameOpens = @ + 1]
       \/ /\ pc' = "finally"
          /\ ev' = NoEvent
          /\ UNCHANGED <<registered, hist>>
    /\ acc' = NoAcc
    /\ rejects' = 0
    /\ UNCHANGED state
    /\ Frame

\* send_force_action([set_name]): returns, or raises out of run()
NameForce ==
    /\ pc = "name_force"
    /\ \/ /\ pc' = "name_wait"
          /\ ev' = Event("force", Val("set_name", 0), TRUE)
       \/ /\ pc' = "finally"
          /\ ev' = NoEvent
    /\ UNCHANGED <<state, registered, acc, rejects, hist>>
    /\ Frame

\* mutant of NameWake: run() goes on without waiting for state.played
NameWake_nowait ==
    /\ pc = "name_wait"
    /\ state' = reset_played(state)
    /\ pc' = "launch"
    /\ ev' = NoEvent
    /\ UNCHANGED <<registered, acc, rejects, hist>>
    /\ Frame

\* state.played.wait() returns; reset_played()
NameWake ==
    /\ pc = "name_wait"
    /\ state.played
    /\ state' = reset_played(state)
    /\ pc' = "launch"
    /\ ev' = NoEvent
    /\ UNCHANGED <<registered, acc, rejects, hist>>
    /\ Frame

\* configure_webdriver() and driver.get(BASE_URL): the page, or an exception
Launch ==
    /\ pc = "launch"
    /\ \/ /\ pc' = "join"
          /\ hist' = [hist EXCEPT !.launched = TRUE]
       \/ /\ pc' = "finally"
          /\ UNCHANGED hist
    /\ ev' = NoEvent
    /\ UNCHANGED <<state, registered, acc, rejects>>
    /\ Frame

\* mutant of handle_join_phase: run() ignores the result and enters the loop
handle_join_phase_ignored ==
    /\ pc = "join"
    /\ \E joined \in BOOLEAN :
          /\ pc' = "ans_poll"
          /\ ev' = Event("join", state.username, joined)
          /\ hist' = [hist EXCEPT !.joinCalls = @ + 1,
                                  !.joinArg = state.username,
                                  !.joinFailed = ~joined]
    /\ acc' = NoAcc
    /\ rejects' = 0
    /\ UNCHANGED <<state, registered>>
    /\ Frame

\* handle_join_phase(driver, roomcode, state.username): True, or False on any
\* exception; on False run() awaits neuro_component.stop() and returns
handle_join_phase ==
    /\ pc = "join"
    /\ \E joined \in BOOLEAN :
          /\ pc' = IF joined THEN "ans_poll" ELSE "join_stop"
          /\ ev' = Event("join", state.username, joined)
          /\ hist' = [hist EXCEPT !.joinCalls = @ + 1,
                                  !.joinArg = state.username,
                                  !.joinFailed = ~joined]
    /\ acc' = NoAcc
    /\ rejects' = 0
    /\ UNCHANGED <<state, registered>>
    /\ Frame

\* await neuro_component.stop() after the failed join, then return
JoinStop ==
    /\ pc = "join_stop"
    /\ pc' = "finally"
    /\ ev' = Event("stop", NoVal, TRUE)
    /\ hist' = [hist EXCEPT !.stopCalls = @ + 1, !.stopped = TRUE]
    /\ UNCHANGED <<state, registered, acc, rejects>>
    /\ Frame

\* finally: await neuro_component.stop().  After trio.Cancelled the scope is
\* still cancelled, so the await inside stop() raises Cancelled again: stop()
\* is called, and runs to its end or not
Finally ==
    /\ pc = "finally"
    /\ pc' = "done"
    /\ \E carried \in BOOLEAN :
          /\ carried \/ hist.cancel = "cancelled"
          /\ ev' = Event("stop", NoVal, carried)
          /\ hist' = [hist EXCEPT !.stopCalls = @ + 1,
                                  !.stopped = @ \/ carried]
    /\ UNCHANGED <<state, registered, acc, rejects>>
    /\ Frame

\* KeyboardInterrupt anywhere inside the try block, or trio.Cancelled at one
\* of its awaits
Cancel ==
    /\ pc \in TryPcs
    /\ pc' = "finally"
    /\ ev' = NoEvent
    /\ \E k \in {"interrupt", "cancelled"} :
          /\ k = "cancelled" => pc \in Checkpoints
          /\ hist' = [hist EXCEPT !.cancel = k]
    /\ UNCHANGED <<state, registered, acc, rejects>>
    /\ Frame

\* ------------------------------------------------------------------------
\* handle_answer_phase, one action per await
\* ------------------------------------------------------------------------
\* find_element("state-answer-question") and the pt-page-off test:
\* absent (NoSuchElementException) or off gives False, and run() goes on to
\* handle_voting_phase
AnswerPoll ==
    /\ pc = "ans_poll"
    /\ pc' = IF surf.ans = "on" THEN "ans_sleep" ELSE "vote_poll"
    /\ ev' = NoEvent
    /\ hist' = [hist EXCEPT
                  !.iter = IF surf.ans = "on" /\ surf.vote = "on"
                           THEN "both" ELSE "none",
                  !.obs = IF surf.ans = "on" THEN "ans_on" ELSE "none",
                  !.handled = @ /\ surf.ans = "on"]
    /\ UNCHANGED <<state, registered, acc, rejects>>
    /\ Frame

\* trio.sleep(ANSWER_WAIT) returns; the question text is read
AnswerSleep ==
    /\ pc = "ans_sleep"
    /\ pc' = IF surf.ans = "absent" THEN "vote_poll" ELSE "ans_register"
    /\ ev' = NoEvent
    /\ hist' = IF surf.ans = "absent"
               THEN [hist EXCEPT !.obs = "none", !.iter = "none",
                                 !.handled = FALSE]
               ELSE hist
    /\ UNCHANGED <<state, registered, acc, rejects>>
    /\ Frame

\* register_temporary_actions(respond): returns, or raises (caught: False)
AnswerRegister ==
    /\ pc = "ans_register"
    /\ \/ /\ registered' = registered \cup {"respond"}
          /\ pc' = "ans_force"
          /\ ev' = Event("register", Val("respond", 0), TRUE)
          /\ acc' = NoAcc
          /\ rejects' = 0
          /\ UNCHANGED hist
       \/ /\ pc' = "vote_poll"
          /\ ev' = NoEvent
          /\ hist' = [hist EXCEPT !.obs = "none", !.iter = "none",
                                  !.handled = FALSE]
          /\ UNCHANGED <<registered, acc, rejects>>
    /\ UNCHANGED state
    /\ Frame

\* send_force_action([respond]): returns, or raises (caught: False; the
\* handler registered just before is not unregistered)
AnswerForce ==
    /\ pc = "ans_force"
    /\ \/ /\ pc' = "ans_wait"
          /\ ev' = Event("force", Val("respond", 0), TRUE)
          /\ hist' = [hist EXCEPT
                        !.iter = IF @ = "both" THEN "opened" ELSE @,
                        !.handled = FALSE]
       \/ /\ pc' = "vote_poll"
          /\ ev' = NoEvent
          /\ hist' = [hist EXCEPT !.obs = "none", !.iter = "none",
                                  !.handled = FALSE]
    /\ UNCHANGED <<state, registered, acc, rejects>>
    /\ Frame

\* mutant of AnswerApply: handle_answer_phase without its except clauses, a
\* failed apply leaves run() through the finally
AnswerApply_uncaught ==
    /\ pc = "ans_wait"
    /\ state.played
    /\ state' = reset_played(state)
    /\ \E box \in BOOLEAN, sent \in BOOLEAN :
          /\ pc' = IF box /\ sent THEN "pause" ELSE "finally"
          /\ ev' = IF box THEN Event("answer", state.response, sent) ELSE NoEvent
          /\ hist' = [hist EXCEPT
                        !.obs = "none",
                        !.iter = IF box /\ sent THEN "none" ELSE @,
                        !.handled = box /\ sent /\ surf.ans = "on"]
    /\ acc' = NoAcc
    /\ rejects' = 0
    /\ UNCHANGED registered
    /\ Frame

\* state.played.wait() returns; reset_played(); the answer box is awaited,
\* state.response typed and the submit button clicked.  box = FALSE: the box
\* never appears (nothing typed); sent = FALSE: typing or submitting raises
AnswerApply ==
    /\ pc = "ans_wait"
    /\ state.played
    /\ state' = reset_played(state)
    /\ \E box \in BOOLEAN, sent \in BOOLEAN :
          /\ pc' = IF box /\ sent THEN "pause" ELSE "vote_poll"
          /\ ev' = IF box THEN Event("answer", state.response, sent) ELSE NoEvent
          /\ hist' = [hist EXCEPT
                        !.obs = "none",
                        !.iter = IF box /\ sent THEN "none" ELSE @,
                        !.handled = box /\ sent /\ surf.ans = "on"]
    /\ acc' = NoAcc
    /\ rejects' = 0
    /\ UNCHANGED registered
    /\ Frame

\* trio.sleep(PAUSE_TIME) after a handled phase, then the next iteration
Pause ==
    /\ pc = "pause"
    /\ pc' = "ans_poll"
    /\ ev' = NoEvent
    /\ UNCHANGED <<state, registered, acc, rejects, hist>>
    /\ Frame

\* ------------------------------------------------------------------------
\* handle_voting_phase, one action per await
\* ------------------------------------------------------------------------
\* mutant of VotePoll: the pt-page-off test is left out
VotePoll_nocheck ==
    /\ pc = "vote_poll"
    /\ pc' = IF surf.vote # "absent" THEN "vote_sleep" ELSE "ans_poll"
    /\ ev' = NoEvent
    /\ hist' = IF surf.vote \in {"on", "waiting"}
               THEN [hist EXCEPT !.obs = "vote_active"]
               ELSE [hist EXCEPT !.obs = "none", !.iter = "none"]
    /\ UNCHANGED <<state, registered, acc, rejects>>
    /\ Frame

\* find_element("state-vote") and the pt-page-off test; False sends run()
\* straight to the next iteration
VotePoll ==
    /\ pc = "vote_poll"
    /\ pc' = IF surf.vote \in {"on", "waiting"} THEN "vote_sleep" ELSE "ans_poll"
    /\ ev' = NoEvent
    /\ hist' = IF surf.vote \in {"on", "waiting"}
               THEN [hist EXCEPT !.obs = "vote_active"]
               ELSE [hist EXCEPT !.obs = "none", !.iter = "none"]
    /\ UNCHANGED <<state, registered, acc, rejects>>
    /\ Frame

\* trio.sleep(PAUSE_TIME) returns; vote text, question text and the buttons
\* are read: n buttons, none being a TimeoutException
VoteSleep ==
    /\ pc = "vote_sleep"
    /\ ev' = NoEvent
    /\ \/ /\ surf.vote \in {"absent", "waiting"}
          /\ pc' = "ans_poll"
          /\ hist' = [hist EXCEPT !.obs = "none", !.iter = "none"]
          /\ UNCHANGED <<state, vote_buttons>>
       \/ /\ surf.vote \in {"on", "off"}
          /\ \E n \in 0 .. MaxButtons :
                /\ hist' = [hist EXCEPT
                              !.obs = IF @ = "vote_active" /\ n > 0
                                      THEN "vote_ready" ELSE "none",
                              !.iter = IF n > 0 THEN @ ELSE "none"]
                /\ IF n = 0
                   THEN /\ pc' = "ans_poll"
                        /\ UNCHANGED <<state, vote_buttons>>
                   ELSE /\ pc' = "vote_register"
                        /\ vote_buttons' = n
                        /\ state' = [state EXCEPT !.vote_option_count = n]
    /\ UNCHANGED <<registered, acc, rejects, surf, last>>

\* register_temporary_actions(cast_vote): returns, or raises (caught: False)
VoteRegister ==
    /\ pc = "vote_register"
    /\ \/ /\ registered' = registered \cup {"cast_vote"}
          /\ pc' = "vote_force"
          /\ ev' = Event("register", Val("cast_vote", 0), TRUE)
          /\ acc' = NoAcc
          /\ rejects' = 0
          /\ hist' = [hist EXCEPT !.iter = "none"]
       \/ /\ pc' = "ans_poll"
          /\ ev' = NoEvent
          /\ hist' = [hist EXCEPT !.obs = "none", !.iter = "none"]
          /\ UNCHANGED <<registered, acc, rejects>>
    /\ UNCHANGED state
    /\ Frame

\* send_force_action([cast_vote]): returns, or raises (caught: False)
VoteForce ==
    /\ pc = "vote_force"
    /\ \/ /\ pc' = "vote_wait"
          /\ ev' = Event("force", Val("cast_vote", 0), TRUE)
          /\ UNCHANGED hist
       \/ /\ pc' = "ans_poll"
          /\ ev' = NoEvent
          /\ hist' = [hist EXCEPT !.obs = "none"]
    /\ UNCHANGED <<state, registered, acc, rejects>>
    /\ Frame

\* the button vote_buttons[i] selects in a list of n: Python counts a
\* negative index from the end; n stands for IndexError
PyIndex(i, n) ==
    IF i >= n \/ i < 0 - n THEN n
    ELSE IF i < 0 THEN n + i
    ELSE i

\* state.played.wait() returns; reset_played(); vote_buttons[state.vote]
\* is clicked.  clicked = FALSE: click() raises
VoteApply ==
    /\ pc = "vote_wait"
    /\ state.played
    /\ state' = reset_played(state)
    /\ LET b == PyIndex(state.vote, vote_buttons)
       IN  IF b = vote_buttons
           THEN /\ pc' = "ans_poll"
                /\ ev' = Event("index_error", IntV(state.vote), FALSE)
           ELSE \E clicked \in BOOLEAN :
                    /\ pc' = IF clicked THEN "pause" ELSE "ans_poll"
                    /\ ev' = Event("click", IntV(b), clicked)
    /\ acc' = NoAcc
    /\ rejects' = 0
    /\ hist' = [hist EXCEPT !.obs = "none"]
    /\ UNCHANGED registered
    /\ Frame

\* ------------------------------------------------------------------------
\* Environment: the game page and the agent
\* ------------------------------------------------------------------------
\* the page moves to any other combination of markers, once it is loaded
SurfaceChange ==
    /\ pc \in LoopPcs
    /\ \E s \in Surfaces : s # surf /\ surf' = s
    /\ hist' = [hist EXCEPT !.handled = FALSE]
    /\ UNCHANGED <<pc, state, registered, vote_buttons, ev, acc, rejects, last>>

FieldOf(a) ==
    CASE a = "set_name" -> "name"
      [] a = "respond" -> "answer"
      [] a = "cast_vote" -> "vote"

\* the payloads the agent sends in Spec: one of each outcome of the handler
\* (HandlerSpec runs the handlers on all of Payloads)
AgentValues(a) ==
    CASE a = "set_name" ->
            {Str(0), Str(1), Str(MAX_NAME_LENGTH), Str(MAX_NAME_LENGTH + 1)}
      [] a = "respond" ->
            {Str(0), Str(1), Str(MAX_ANSWER_LENGTH), Str(MAX_ANSWER_LENGTH + 1)}
      [] a = "cast_vote" ->
            {IntV(n) : n \in 0 .. (MaxButtons + 1)} \cup {Str(1)}

AgentPayloads(a) ==
    {BadJson, EmptyObj} \cup {Obj(FieldOf(a), v) : v \in AgentValues(a)}

\* the agent calls a registered action with payload p while run() is
\* suspended in an await; the handler runs, and an accepted call unregisters
\* the temporary action
Submit(a, p) ==
    /\ pc \in Checkpoints
    /\ a \in registered
    /\ LET r == Handler(a, p, state)
       IN  /\ state' = r.st
           /\ IF r.ok
              THEN /\ registered' = registered \ {a}
                   /\ acc' = [act |-> a, val |-> p.val]
                   /\ hist' = [hist EXCEPT !.handled = FALSE]
                   /\ UNCHANGED rejects
              ELSE /\ rejects < MaxRejects
                   /\ rejects' = rejects + 1
                   /\ UNCHANGED <<registered, acc, hist>>
    /\ UNCHANGED <<pc, surf, vote_buttons, ev, last>>

Agent == \E a \in Actions : \E p \in AgentPayloads(a) : Submit(a, p)

\* ------------------------------------------------------------------------
\* Specification of run()
\* ------------------------------------------------------------------------
Coordinator ==
    \/ Connect \/ Startup \/ Roomcode
    \/ NameRegister \/ NameForce \/ NameWake
    \/ Launch \/ handle_join_phase \/ JoinStop \/ Finally
    \/ AnswerPoll \/ AnswerSleep \/ AnswerRegister \/ AnswerForce \/ AnswerApply
    \/ Pause
    \/ VotePoll \/ VoteSleep \/ VoteRegister \/ VoteForce \/ VoteApply

Next == Coordinator \/ Cancel \/ SurfaceChange \/ Agent

Spec == Init /\ [][Next]_vars

\* the coordinator task is scheduled whenever it can run
FairSpec == Spec /\ WF_vars(Coordinator)

\* ------------------------------------------------------------------------
\* run() of quiplash.py: the same steps written in one function, with the
\* same pc values.  Nothing is caught before the main loop; inside it only
\* KeyboardInterrupt and the three selenium exceptions are, and there is no
\* finally: an exception that leaves run() ends it without stop()
\* ------------------------------------------------------------------------
\* raise_event("connect"); not connected: await stop() and return
q_Connect ==
    /\ pc = "connect"
    /\ \E connected \in BOOLEAN :
          pc' = IF connected THEN "startup" ELSE "stop"
    /\ ev' = NoEvent
    /\ UNCHANGED <<state, registered, acc, rejects, hist>>
    /\ Frame

\* send_startup_command(): returns, or raises out of run()
q_Startup ==
    /\ pc = "startup"
    /\ \E sent \in BOOLEAN :
          pc' = IF sent THEN "roomcode" ELSE "done"
    /\ ev' = NoEvent
    /\ UNCHANGED <<state, registered, acc, rejects, hist>>
    /\ Frame

\* input() of the room code and assert len(roomcode) == 4; the closure
\* variables username, response, vote, vote_option_count
q_Roomcode ==
    /\ pc = "roomcode"
    /\ \E n \in (ROOMCODE_LENGTH - 1) .. (ROOMCODE_LENGTH + 1), alpha \in BOOLEAN :
          /\ pc' = IF n = 4 THEN "name_register" ELSE "done"
          /\ hist' = [hist EXCEPT !.roomcode = FourLetters(n, alpha)]
    /\ state' = GameState
    /\ ev' = NoEvent
    /\ UNCHANGED <<registered, acc, rejects>>
    /\ Frame

\* register_temporary_actions(set_name): returns, or raises out of run()
q_NameRegister ==
    /\ pc = "name_register"
    /\ \/ /\ registered' = registered \cup {"set_name"}
          /\ pc' = "name_force"
          /\ ev' = Event("register", Val("set_name", 0), TRUE)
          /\ hist' = [hist EXCEPT !.nameOpens = @ + 1]
       \/ /\ pc' = "done"
          /\ ev' = NoEvent
          /\ UNCHANGED <<registered, hist>>
    /\ acc' = NoAcc
    /\ rejects' = 0
    /\ UNCHANGED state
    /\ Frame

\* send_force_action([set_name]): returns, or raises out of run()
q_NameForce ==
    /\ pc = "name_force"
    /\ \/ /\ pc' = "name_wait"
          /\ ev' = Event("force", Val("set_name", 0), TRUE)
       \/ /\ pc' = "done"
          /\ ev' = NoEvent
    /\ UNCHANGED <<state, registered, acc, rejects, hist>>
    /\ Frame

\* neuro_played.wait() returns; neuro_played = trio.Event()
q_NameWake ==
    /\ pc = "name_wait"
    /\ state.played
    /\ state' = reset_played(state)
    /\ pc' = "launch"
    /\ ev' = NoEvent
    /\ UNCHANGED <<registered, acc, rejects, hist>>
    /\ Frame

\* webdriver.Chrome() and driver.get(url): the page, or an exception out of
\* run()
q_Launch ==
    /\ pc = "launch"
    /\ \/ /\ pc' = "join"
          /\ hist' = [hist EXCEPT !.launched = TRUE]
       \/ /\ pc' = "done"
          /\ UNCHANGED hist
    /\ ev' = NoEvent
    /\ UNCHANGED <<state, registered, acc, rejects>>
    /\ Frame

\* the join: room code and username typed, the play button clicked; on any
\* exception driver.quit(), await stop() and return
q_Join ==
    /\ pc = "join"
    /\ \E joined \in BOOLEAN :
          /\ pc' = IF joined THEN "ans_poll" ELSE "stop"
          /\ ev' = Event("join", state.username, joined)
          /\ hist' = [hist EXCEPT !.joinCalls = @ + 1,
                                  !.joinArg = state.username,
                                  !.joinFailed = ~joined]
    /\ acc' = NoAcc
    /\ rejects' = 0
    /\ UNCHANGED <<state, registered>>
    /\ Frame

\* await neuro_component.stop(), then return
q_Stop ==
    /\ pc = "stop"
    /\ pc' = "done"
    /\ ev' = Event("stop", NoVal, TRUE)
    /\ hist' = [hist EXCEPT !.stopCalls = @ + 1, !.stopped = TRUE]
    /\ UNCHANGED <<state, registered, acc, rejects>>
    /\ Frame

\* KeyboardInterrupt or trio.Cancelled: only a KeyboardInterrupt raised
\* inside the try of the main loop is caught (driver.quit(), stop(), return)
q_Cancel ==
    /\ pc \in TryPcs
    /\ ev' = NoEvent
    /\ \E k \in {"interrupt", "cancelled"} :
          /\ k = "cancelled" => pc \in Checkpoints
          /\ hist' = [hist EXCEPT !.cancel = k]
          /\ pc' = IF k = "interrupt" /\ pc \in LoopPcs THEN "stop" ELSE "done"
    /\ UNCHANGED <<state, registered, acc, rejects>>
    /\ Frame

\* find_element("state-answer-question"): absent raises
\* NoSuchElementException, caught by the loop (pass: next iteration); off
\* falls through to the vote test
q_AnswerPoll ==
    /\ pc = "ans_poll"
    /\ pc' = CASE surf.ans = "on" -> "ans_sleep"
               [] surf.ans = "off" -> "vote_poll"
               [] surf.ans = "absent" -> "ans_poll"
    /\ ev' = NoEvent
    /\ UNCHANGED <<state, registered, acc, rejects, hist>>
    /\ Frame

\* trio.sleep(0.1) returns; the question text is read
q_AnswerSleep ==
    /\ pc = "ans_sleep"
    /\ pc' = IF surf.ans = "absent" THEN "ans_poll" ELSE "ans_register"
    /\ ev' = NoEvent
    /\ UNCHANGED <<state, registered, acc, rejects, hist>>
    /\ Frame

\* register_temporary_actions(respond): returns, or raises out of run()
q_AnswerRegister ==
    /\ pc = "ans_register"
    /\ \/ /\ registered' = registered \cup {"respond"}
          /\ pc' = "ans_force"
          /\ ev' = Event("register", Val("respond", 0), TRUE)
          /\ acc' = NoAcc
          /\ rejects' = 0
       \/ /\ pc' = "done"
          /\ ev' = NoEvent
          /\ UNCHANGED <<registered, acc, rejects>>
    /\ UNCHANGED <<state, hist>>
    /\ Frame

\* send_force_action([respond]): returns, or raises out of run()
q_AnswerForce ==
    /\ pc = "ans_force"
    /\ \/ /\ pc' = "ans_wait"
          /\ ev' = Event("force", Val("respond", 0), TRUE)
       \/ /\ pc' = "done"
          /\ ev' = NoEvent
    /\ UNCHANGED <<state, registered, acc, rejects, hist>>
    /\ Frame

\* neuro_played.wait() returns; the answer box is awaited, response typed and
\* the submit button clicked; a selenium exception is caught by the loop
q_AnswerApply ==
    /\ pc = "ans_wait"
    /\ state.played
    /\ state' = reset_played(state)
    /\ \E box \in BOOLEAN, sent \in BOOLEAN :
          /\ pc' = IF box /\ sent THEN "pause" ELSE "ans_poll"
          /\ ev' = IF box THEN Event("answer", state.response, sent) ELSE NoEvent
    /\ acc' = NoAcc
    /\ rejects' = 0
    /\ UNCHANGED <<registered, hist>>
    /\ Frame

\* trio.sleep(1) after an answer or a vote, then continue
q_Pause ==
    /\ pc = "pause"
    /\ pc' = "ans_poll"
    /\ ev' = NoEvent
    /\ UNCHANGED <<state, registered, acc, rejects, hist>>
    /\ Frame

\* find_element("state-vote") and the pt-page-off test
q_VotePoll ==
    /\ pc = "vote_poll"
    /\ pc' = IF surf.vote \in {"on", "waiting"} THEN "vote_sleep" ELSE "ans_poll"
    /\ ev' = NoEvent
    /\ UNCHANGED <<state, registered, acc, rejects, hist>>
    /\ Frame

\* trio.sleep(1) returns; vote text, question text and the buttons are read
q_VoteSleep ==
    /\ pc = "vote_sleep"
    /\ ev' = NoEvent
    /\ \/ /\ surf.vote \in {"absent", "waiting"}
          /\ pc' = "ans_poll"
          /\ UNCHANGED <<state, vote_buttons>>
       \/ /\ surf.vote \in {"on", "off"}
          /\ \E n \in 0 .. MaxButtons :
                IF n = 0
                THEN /\ pc' = "ans_poll"
                     /\ UNCHANGED <<state, vote_buttons>>
                ELSE /\ pc' = "vote_register"
                     /\ vote_buttons' = n
                     /\ state' = [state EXCEPT !.vote_option_count = n]
    /\ UNCHANGED <<registered, acc, rejects, hist, surf, last>>

\* register_temporary_actions(cast_vote): returns, or raises out of run()
q_VoteRegister ==
    /\ pc = "vote_register"
    /\ \/ /\ registered' = registered \cup {"cast_vote"}
          /\ pc' = "vote_force"
          /\ ev' = Event("register", Val("cast_vote", 0), TRUE)
          /\ acc' = NoAcc
          /\ rejects' = 0
       \/ /\ pc' = "done"
          /\ ev' = NoEvent
          /\ UNCHANGED <<registered, acc, rejects>>
    /\ UNCHANGED <<state, hist>>
    /\ Frame

\* send_force_action([cast_vote]): returns, or raises out of run()
q_VoteForce ==
    /\ pc = "vote_force"
    /\ \/ /\ pc' = "vote_wait"
          /\ ev' = Event("force", Val("cast_vote", 0), TRUE)
       \/ /\ pc' = "done"
          /\ ev' = NoEvent
    /\ UNCHANGED <<state, registered, acc, rejects, hist>>
    /\ Frame

\* neuro_played.wait() returns; vote_buttons[vote].click().  IndexError is
\* not caught and leaves run(); a click that raises a selenium exception is
\* caught by the loop
q_VoteApply ==
    /\ pc = "vote_wait"
    /\ state.played
    /\ state' = reset_played(state)
    /\ LET b == PyIndex(state.vote, vote_buttons)
       IN  IF b = vote_buttons
           THEN /\ pc' = "done"
                /\ ev' = Event("index_error", IntV(state.vote), FALSE)
           ELSE \E clicked \in BOOLEAN :
                    /\ pc' = IF clicked THEN "pause" ELSE "ans_poll"
                    /\ ev' = Event("click", IntV(b), clicked)
    /\ acc' = NoAcc
    /\ rejects' = 0
    /\ UNCHANGED <<registered, hist>>
    /\ Frame

\* the agent calls a registered action of quiplash.py (no payload of
\* AgentPayloads makes its handlers raise)
q_Submit(a, p) ==
    /\ pc \in Checkpoints
    /\ a \in registered
    /\ LET r == q_Handler(a, p, state)
       IN  /\ ~r.exc
           /\ state' = r.st
           /\ IF r.ok
              THEN /\ registered' = registered \ {a}
                   /\ acc' = [act |-> a, val |-> p.val]
                   /\ UNCHANGED rejects
              ELSE /\ rejects < MaxRejects
                   /\ rejects' = rejects + 1
                   /\ UNCHANGED <<registered, acc>>
    /\ UNCHANGED <<pc, surf, vote_buttons, ev, hist, last>>

q_Agent == \E a \in Actions : \E p \in AgentPayloads(a) : q_Submit(a, p)

q_Coordinator ==
    \/ q_Connect \/ q_Startup \/ q_Roomcode
    \/ q_NameRegister \/ q_NameForce \/ q_NameWake
    \/ q_Launch \/ q_Join \/ q_Stop
    \/ q_AnswerPoll \/ q_AnswerSleep \/ q_AnswerRegister \/ q_AnswerForce
    \/ q_AnswerApply \/ q_Pause
    \/ q_VotePoll \/ q_VoteSleep \/ q_VoteRegister \/ q_VoteForce \/ q_VoteApply

q_Next == q_Coordinator \/ q_Cancel \/ SurfaceChange \/ q_Agent

QSpec == Init /\ [][q_Next]_vars

\* ------------------------------------------------------------------------
\* Specification of one handler call: any handler of either file, on any
\* payload, from any GameState of the bounded set below
\* ------------------------------------------------------------------------
GameStates ==
    [username : {PyNone, Str(1)}, response : {PyNone, Str(1)},
     vote : {0 - 1, 0}, vote_option_count : 0 .. MaxButtons,
     played : BOOLEAN]

Copies == {"neuro", "quiplash"}

HandlerInit ==
    /\ pc = "handler"
    /\ state \in GameStates
    /\ registered = Actions
    /\ surf = NoPage
    /\ vote_buttons = 0
    /\ ev = NoEvent
    /\ acc = NoAcc
    /\ rejects = 0
    /\ hist = Hist0
    /\ last = NoCall

HandlerCall(c, a, p) ==
    /\ pc = "handler"
    /\ last = NoCall
    /\ LET r == IF c = "neuro" THEN Handler(a, p, state) ELSE q_Handler(a, p, state)
       IN  /\ state' = r.st
           /\ last' = [copy |-> c, act |-> a, p |-> p, pre |-> state,
                       ok |-> r.ok, msg |-> r.msg, exc |-> r.exc]
    /\ UNCHANGED <<pc, registered, surf, vote_buttons, ev, acc, rejects, hist>>

HandlerNext ==
    \E c \in Copies : \E a \in Actions : \E p \in Payloads : HandlerCall(c, a, p)

HandlerSpec == HandlerInit /\ [][HandlerNext]_vars

\* ========================================================================
\* Claims
\* ========================================================================

\* C1: in every reachable state of run() at most one of the actions
\* set_name, respond and cast_vote is registered with the agent and not yet
\* resolved, also after register_temporary_actions or send_force_action
\* raised and after a failed surface apply.
C1_AtMostOneWindow == Cardinality(registered) <= 1

\* C2: a call of set_name_action, answer_action or vote_action that returns
\* a rejection leaves the GameState as it was before the call: username,
\* response, vote, vote_option_count and played.
C2_RejectionLeavesState ==
    (last.copy = "neuro" /\ ~last.ok) => state = last.pre

\* a rejected vote on a GameState that already holds a name, an answer, a
\* vote and a set ready-signal
C2_Witness ==
    /\ last.copy = "neuro"
    /\ last.act = "cast_vote"
    /\ last.p = Obj("vote", IntV(MaxButtons + 1))
    /\ ~last.ok
    /\ last.pre.username = Str(1)
    /\ last.pre.vote = 0
    /\ last.pre.played

\* C7: on a payload whose 'vote' field holds v, vote_action (of either file)
\* accepts iff v is an integer with 1 <= v <= vote_option_count, stores
\* vote = v - 1 on acceptance, and rejects a non-integer and an out-of-range
\* integer with two different messages.
VoteClaim(c) ==
    (last.copy = c /\ last.act = "cast_vote"
        /\ last.p.kind = "obj" /\ last.p.field = "vote")
    => LET v == last.p.val
           inRange == v.t = "int" /\ 1 <= v.n /\ v.n <= last.pre.vote_option_count
       IN  /\ ~last.exc
           /\ last.ok <=> inRange
           /\ last.ok =>
                state = [last.pre EXCEPT !.vote = v.n - 1, !.played = TRUE]
           /\ v.t # "int" => last.msg = "'vote' must be an integer."
           /\ (v.t = "int" /\ ~inRange) =>
                last.msg = "Invalid choice. Choices are from 1 to vote_option_count, inclusive."

C7_VoteAcceptedIffIntegerInRange == \A c \in Copies : VoteClaim(c)

\* the part of C7 that is about src/neuro-quiplash.py alone
C7_NeuroCopyOnly == VoteClaim("neuro")

\* C8: set_name_action (limit MAX_NAME_LENGTH) and answer_action (limit
\* MAX_ANSWER_LENGTH) accept a string s iff 0 < length(s) <= limit and then
\* store s unchanged in username / response; the empty string and a string
\* longer than the limit are rejected, each with its own message.
LengthClaim(a, f, limit, blank, toolong) ==
    (last.copy = "neuro" /\ last.act = a /\ last.p.kind = "obj"
        /\ last.p.field = f /\ last.p.val.t \in {"str", "numstr"})
    => LET s == last.p.val
           n == PyLen(s)
       IN  /\ last.ok <=> (0 < n /\ n <= limit)
           /\ last.ok =>
                state = IF a = "set_name"
                        THEN [last.pre EXCEPT !.username = s, !.played = TRUE]
                        ELSE [last.pre EXCEPT !.response = s, !.played = TRUE]
           /\ n = 0 => last.msg = blank
           /\ n > limit => last.msg = toolong
           /\ blank # toolong

C8_LengthRules ==
    /\ LengthClaim("set_name", "name", MAX_NAME_LENGTH,
                   "Received blank name. Must enter in a name.",
                   "Name cannot exceed MAX_NAME_LENGTH characters.")
    /\ LengthClaim("respond", "answer", MAX_ANSWER_LENGTH,
                   "Received blank answer. Must enter in an answer.",
                   "Answer cannot exceed MAX_ANSWER_LENGTH characters.")

\* a name of exactly MAX_NAME_LENGTH characters was accepted and stored
C8_Witness ==
    /\ last.copy = "neuro"
    /\ last.act = "set_name"
    /\ last.p = Obj("name", Str(MAX_NAME_LENGTH))
    /\ last.ok
    /\ state.username = Str(MAX_NAME_LENGTH)

\* C3: the wait on the ready-signal is bounded: whenever run() is suspended
\* in state.played.wait() of a name, answer or vote window it eventually
\* leaves that wait, even if the agent never submits a valid decision.
C3_WaitIsBounded == (pc \in WaitPcs) ~> (pc \notin WaitPcs)

\* C4: when run() registers the action of a decision window, state.played is
\* unset, so that only a decision accepted for this window can end its wait.
C4_SignalUnsetAtOpen == (pc \in RegisterPcs) => ~state.played

\* the action of the window run() waits in
WindowAction ==
    CASE pc = "name_wait" -> "set_name"
      [] pc = "ans_wait" -> "respond"
      [] pc = "vote_wait" -> "cast_vote"
      [] OTHER -> "none"

\* the agent submits a payload that the handler of action a accepts
AcceptedSubmit(a) ==
    \E p \in AgentPayloads(a) : Submit(a, p) /\ state'.played

\* C5: a rejected submission changes nothing but the count of rejections:
\* run() stays where it is, the action stays registered, no apply step runs
\* and the ready-signal is not set; and in an open window, after any number
\* of rejections, a valid submission is still possible, is accepted, and the
\* set ready-signal lets run() go on.
C5_RejectionKeepsWindow ==
    [][/\ rejects' > rejects =>
            /\ pc' = pc
            /\ registered' = registered
            /\ state' = state
            /\ ev' = ev
            /\ hist' = hist
       /\ (pc \in WaitPcs /\ WindowAction \in registered /\ ~state.played) =>
            ENABLED AcceptedSubmit(WindowAction)
       /\ (pc \in WaitPcs /\ state.played) => ENABLED Coordinator
      ]_vars

\* after MaxRejects rejections in a vote window a vote was accepted and the
\* ready-signal is set
C5_Witness ==
    /\ pc = "vote_wait"
    /\ rejects = MaxRejects
    /\ acc.act = "cast_vote"
    /\ state.played

\* C6: the step that ends the wait of a vote window clicks the button at
\* index v - 1, v being the vote accepted in that window, and a rejected
\* vote clicks nothing.
C6_ClickIsAcceptedVote ==
    [][/\ (pc = "vote_wait" /\ pc' \in {"pause", "ans_poll"}) =>
            /\ acc.act = "cast_vote"
            /\ ev'.kind = "click"
            /\ ev'.val = IntV(acc.val.n - 1)
       /\ rejects' > rejects => ev' = ev
      ]_vars

\* C9: the name window is opened at most once and before the join; the join
\* is invoked at most once, only after a name was accepted, and with that
\* name; without an accepted name there is no join.
C9_JoinAfterAcceptedName ==
    [][/\ hist'.nameOpens <= 1
       /\ hist'.joinCalls <= 1
       /\ hist'.joinCalls > hist.joinCalls =>
            /\ hist.nameOpens = 1
            /\ acc.act = "set_name"
            /\ PyLen(acc.val) > 0
            /\ ev' = Event("join", acc.val, ev'.ok)
            /\ hist'.joinArg = acc.val
       /\ hist'.nameOpens > hist.nameOpens => hist.joinCalls = 0
      ]_vars

\* the join was invoked with the accepted 12-character name
C9_Witness ==
    /\ hist.joinCalls = 1
    /\ hist.nameOpens = 1
    /\ ev.kind = "join"
    /\ ev.val = Str(MAX_NAME_LENGTH)

\* C10: once the join has failed run() never polls a marker and opens no
\* answer or vote window, and when it has ended the agent session was told
\* to stop.
C10_JoinFailureTerminates ==
    hist.joinFailed =>
        /\ pc \in {"join_stop", "finally", "done"}
        /\ registered \cap {"respond", "cast_vote"} = {}
        /\ pc = "done" => hist.stopCalls >= 1

\* run() has ended after a failed join
C10_Witness == hist.joinFailed /\ pc = "done"


\* C11: when a KeyboardInterrupt or trio.Cancelled ends run(), at whatever
\* point it arrives (an open name, answer or vote window included), the run
\* unwinds and neuro_component.stop() is carried out, which is what closes
\* the open window: a run that has ended after a cancellation has stopped
\* the agent session.
C11_CancellationStops ==
    (pc = "done" /\ hist.cancel # "none") => hist.stopped

\* C12: once the join has succeeded no failure inside handle_answer_phase or
\* handle_voting_phase ends the main loop: only a cancellation takes run()
\* out of it; a step that failed on the page leaves run() at a poll; a poll
\* that finds its marker on starts opening a window, and the registration
\* of that window can succeed again.
C12_FailureKeepsLoop ==
    [][/\ (pc \in LoopPcs /\ pc' \notin LoopPcs) =>
            (pc' = "finally" /\ hist'.cancel # "none" /\ hist.cancel = "none")
       /\ (pc \in LoopPcs /\ ~ev'.ok) => pc' \in {"ans_poll", "vote_poll"}
       /\ (pc = "ans_poll" /\ surf.ans = "on" /\ pc' \in LoopPcs /\ pc' # pc) =>
            pc' = "ans_sleep"
       /\ (pc = "vote_poll" /\ surf.vote = "on" /\ pc' \in LoopPcs /\ pc' # pc) =>
            pc' = "vote_sleep"
       /\ pc = "ans_register" =>
            ENABLED (AnswerRegister /\ pc' = "ans_force")
       /\ pc = "vote_register" =>
            ENABLED (VoteRegister /\ pc' = "vote_force")]_vars

\* an answer was accepted, typing or submitting it failed, and run() is at
\* the vote poll of the same iteration
C12_Witness == ev.kind = "answer" /\ ~ev.ok /\ pc = "vote_poll"

\* C13: every accepted decision is consumed by one apply step and by no
\* other: a step in which run() leaves its wait for an answer or a vote
\* consumes a decision that was accepted for the action of the window
\* now open, and leaves none behind to be applied in a later window.
C13_AppliedOnce ==
    [][(pc \in {"ans_wait", "vote_wait"} /\ pc' \in LoopPcs /\ pc' # pc) =>
            /\ acc.act = WindowAction
            /\ acc' = NoAcc]_vars

\* C14: while the page stays in the same phase and the agent submits no new
\* decision, the iterations of the main loop open no further window: after
\* an answer was typed and submitted with the answer marker on, no respond
\* action is registered as long as the page has not changed and no call of
\* the agent was accepted.
C14_NoReopen ==
    [][(pc = "ans_register" /\ pc' = "ans_force") => ~hist.handled]_vars

\* C15: an iteration of the main loop that starts with both the answer and
\* the vote marker on and has opened an answer window opens no vote window,
\* whatever became of the answer: cast_vote is not registered in that
\* iteration.
C15_AnswerFirst ==
    [][(pc = "vote_register" /\ pc' = "vote_force") => hist.iter # "opened"]_vars

\* C16: between two successive iterations of the main loop run() takes the
\* pacing delay trio.sleep(PAUSE_TIME), a suspension point, also when neither
\* phase is active: every step that starts a further iteration is the
\* return of that sleep.
C16_PacedIterations ==
    [][(pc \in LoopPcs /\ pc # "ans_poll" /\ pc' = "ans_poll") => pc = "pause"]_vars

\* C17: a window is opened only for a phase the poll has seen active.
\* handle_answer_phase goes on to its sleep, registers respond and sends the
\* force action only after it saw the answer marker present and not off;
\* handle_voting_phase goes on to its sleep only after it saw the vote marker
\* present and not off, and registers cast_vote and sends the force action
\* only after it also read a vote text other than the waiting message and
\* found at least one button.
C17_WindowOnlyForActivePhase ==
    /\ pc \in AnswerPcs => hist.obs = "ans_on"
    /\ pc = "vote_sleep" => hist.obs = "vote_active"
    /\ pc \in {"vote_register", "vote_force", "vote_wait"} =>
            (hist.obs = "vote_ready" /\ vote_buttons >= 1)
    /\ (pc \in LoopPcs /\ ev.kind \in {"register", "force"}) =>
            \/ ev.val.t = "respond" /\ hist.obs = "ans_on"
            \/ ev.val.t = "cast_vote" /\ hist.obs = "vote_ready"

\* a cast_vote window has just been registered
C17_Witness ==
    /\ pc = "vote_force"
    /\ ev = Event("register", Val("cast_vote", 0), TRUE)
    /\ "cast_vote" \in registered

\* C18: state.vote_option_count is the number of vote buttons when cast_vote
\* is registered, and it does not change while cast_vote stays registered,
\* so that a vote is checked against the count of the window it answers.
C18_VoteCountFixedInWindow ==
    [][/\ (pc = "vote_register" /\ pc' = "vote_force") =>
            (state.vote_option_count = vote_buttons /\ vote_buttons >= 1)
       /\ ("cast_vote" \in registered /\ "cast_vote" \in registered') =>
            state'.vote_option_count = state.vote_option_count]_vars

\* C19: on every raw payload that is not JSON, or is JSON breaking the schema
\* of the action (not an object, the required field missing, a 'name' or
\* 'answer' that is not a string, a 'vote' that is not an integer), each
\* handler of either file returns a (False, message) pair: it does not raise
\* and it does not accept.
IsString(v) == v.t \in {"str", "numstr"}

SchemaViolation(a, p) ==
    \/ p.kind # "obj"
    \/ p.field # FieldOf(a)
    \/ a \in {"set_name", "respond"} /\ ~IsString(p.val)
    \/ a = "cast_vote" /\ p.val.t # "int"

RejectsClaim(c) ==
    (last.copy = c /\ SchemaViolation(last.act, last.p)) =>
        (~last.exc /\ ~last.ok /\ state = last.pre)

C19_SchemaViolationRejected == \A c \in Copies : RejectsClaim(c)

\* C20: when the room code entered is not exactly 4 alphabetic characters,
\* run() ends without opening a decision window, without launching the
\* browser driver and without attempting the join.
C20_InvalidRoomcodeEndsRun ==
    hist.roomcode = "invalid" =>
        /\ hist.nameOpens = 0
        /\ registered = {}
        /\ ~hist.launched
        /\ hist.joinCalls = 0

\* C21: whenever state.played is set while a window is open, the decision
\* field of that window's phase (username, response, vote) holds the value a
\* handler accepted in that same window: the signal is never set while the
\* field still holds its initial value or a value of an earlier window.
OpenPhase ==
    CASE pc \in {"name_force", "name_wait"} -> "set_name"
      [] pc \in {"ans_force", "ans_wait"} -> "respond"
      [] pc \in {"vote_force", "vote_wait"} -> "cast_vote"
      [] OTHER -> "none"

C21_SignalMeansDecision ==
    (state.played /\ OpenPhase # "none") =>
        /\ acc.act = OpenPhase
        /\ OpenPhase = "set_name" => state.username = acc.val
        /\ OpenPhase = "respond" => state.response = acc.val
        /\ OpenPhase = "cast_vote" => state.vote = acc.val.n - 1

\* C22: every step in which handle_voting_phase leaves its wait and indexes
\* vote_buttons[state.vote] does so with 0 <= state.vote < len(vote_buttons):
\* neither the initial -1 nor an index accepted for an earlier, larger vote
\* window selects a button.
C22_ClickIndexInRange ==
    [][(pc = "vote_wait" /\ pc' \in LoopPcs /\ pc' # pc) =>
            (0 <= state.vote /\ state.vote < vote_buttons)]_vars

\* ------------------------------------------------------------------------
\* run() of neuro-quiplash.py when nothing fails inside the main loop: no
\* cancellation, no exception in handle_answer_phase or handle_voting_phase
\* once the phase was polled, the answer marker not removed from the page
\* while its question is read; the coordinator is scheduled fairly and the
\* agent eventually sends a payload that the open window accepts
\* ------------------------------------------------------------------------
\* a phase handler returns False after it has found its phase active
Failed ==
    \/ pc \in AnswerPcs /\ pc' = "vote_poll"
    \/ pc \in {"vote_register", "vote_force", "vote_wait"} /\ pc' = "ans_poll"

LiveCoordinator == Coordinator /\ ~Failed

LiveSurfaceChange == SurfaceChange /\ (pc = "ans_sleep" => surf'.ans # "absent")

LiveNext == LiveCoordinator \/ LiveSurfaceChange \/ Agent

LiveSpec ==
    /\ Init
    /\ [][LiveNext]_vars
    /\ WF_vars(LiveCoordinator)
    /\ \A a \in Actions : WF_vars(AcceptedSubmit(a))

\* C23: with the coordinator and the handler task scheduled fairly, the agent
\* eventually answering every open window with a valid decision and no
\* operation failing, an answer phase polled active leads to the answer being
\* typed and submitted, a vote phase polled active (with its buttons) leads
\* to a vote button being clicked, and after either run() takes up polling
\* again.
C23_ActivePhaseIsApplied ==
    /\ (pc = "ans_sleep") ~> (pc = "pause" /\ ev.kind = "answer" /\ ev.ok)
    /\ (pc = "vote_register") ~> (pc = "pause" /\ ev.kind = "click" /\ ev.ok)
    /\ (pc = "pause") ~> (pc = "ans_poll")

\* a vote button was clicked and run() is in its pacing sleep
C23_Witness == pc = "pause" /\ ev.kind = "click" /\ ev.ok

\* C24: on every path on which run() of neuro-quiplash.py ends,
\* neuro_component.stop() has been called exactly once.
C24_StopExactlyOnce == pc = "done" => hist.stopCalls = 1

\* C25: the handlers of quiplash.py and those of neuro-quiplash.py are
\* equivalent: on the payload and the state of any call, the two copies of
\* the handler called both return, accept or reject alike, and leave the
\* same username, response, vote and played signal.
C25_CopiesEquivalent ==
    last # NoCall =>
        LET rn == Handler(last.act, last.p, last.pre)
            rq == q_Handler(last.act, last.p, last.pre)
        IN  /\ rn.exc = rq.exc
            /\ rn.ok = rq.ok
            /\ rn.st = rq.st

====
